---- MODULE Spec2Model ----
(***************************************************************************)
(* Model of zalgonoise/valigator: the Validator algebra (validation.go)    *)
(* and its context-carrying twin, the ContextValidator algebra.            *)
(*                                                                         *)
(* A Validator / ContextValidator interface value is a record              *)
(*   [type, fn, validators]                                                *)
(* where type is the dynamic type held by the interface ("nil" for the nil *)
(* interface), fn the wrapped raw function of a Func / ContextFunc and     *)
(* validators the member slice of a multi-validator.                       *)
(***************************************************************************)
EXTENDS Integers, Sequences, FiniteSets, TLC

\* ---------------------------------------------------------------- bounds
MaxArgs == 3        \* longest variadic argument list handed to a factory
MaxCalls == 2       \* factory calls in one run

\* ------------------------------------------------------- raw functions
NilFn == "nil"
Fns == {"f1", "f2"}
RawFns == Fns \cup {NilFn}

\* --------------------------------------------------------- the values
NilValidator == [type |-> "nil", fn |-> NilFn, validators |-> <<>>]

Func(f) == [type |-> "Func", fn |-> f, validators |-> <<>>]

ContextFunc(f) == [type |-> "ContextFunc", fn |-> f, validators |-> <<>>]

NoOp == [type |-> "noOpValidator", fn |-> NilFn, validators |-> <<>>]

NoOpContext == [type |-> "noOpContextValidator", fn |-> NilFn, validators |-> <<>>]

\* dynamic types implementing Validator[T] / ContextValidator[T]
SyncTypes == {"Func", "noOpValidator", "multiValidator", "*multiValidator"}

ContextTypes == {"ContextFunc", "noOpContextValidator", "multiContextValidator"}

\* --------------------------------------------------------- normalisers
nonNilFunc(validators) == SelectSeq(validators, LAMBDA f : f # NilFn)

nonNilContextFunc(validators) == SelectSeq(validators, LAMBDA f : f # NilFn)

\* variant: No-op validators are squashed together with the nil entries
nonNilValidators_dropNoOp(validators) ==
  SelectSeq(validators, LAMBDA v : v # NilValidator /\ v.type # "noOpValidator")

nonNilValidators(validators) == SelectSeq(validators, LAMBDA v : v # NilValidator)

nonNilContextValidator(validators) == SelectSeq(validators, LAMBDA v : v # NilValidator)

\* ----------------------------------------------------------- factories
\* variant: the switch lacks case 1, a single function lands in a multi-validator
New_noSingleCase(validators) ==
  LET vs == nonNilFunc(validators) IN
  IF Len(vs) = 0 THEN NoOp
  ELSE [type |-> "multiValidator", fn |-> NilFn,
        validators |-> [i \in 1..Len(vs) |-> Func(vs[i])]]

New(validators) ==
  LET vs == nonNilFunc(validators) IN
  CASE Len(vs) = 0 -> NoOp
    [] Len(vs) = 1 -> Func(vs[1])
    [] OTHER -> [type |-> "multiValidator", fn |-> NilFn,
                 validators |-> [i \in 1..Len(vs) |-> Func(vs[i])]]

NewContext(validators) ==
  LET vs == nonNilContextFunc(validators) IN
  CASE Len(vs) = 0 -> NoOpContext
    [] Len(vs) = 1 -> ContextFunc(vs[1])
    [] OTHER -> [type |-> "multiContextValidator", fn |-> NilFn,
                 validators |-> [i \in 1..Len(vs) |-> ContextFunc(vs[i])]]

\* the loop of Join: the type switch matches the struct type multiValidator[T]
\* only; a *multiValidator[T] falls to the default case
RECURSIVE JoinLoop(_)
JoinLoop(vs) ==
  IF vs = <<>> THEN <<>>
  ELSE (IF Head(vs).type = "multiValidator"
          THEN Head(vs).validators
          ELSE <<Head(vs)>>) \o JoinLoop(Tail(vs))

Join(validators) ==
  LET vs == nonNilValidators(validators) IN
  CASE Len(vs) = 0 -> NoOp
    [] Len(vs) = 1 -> vs[1]
    [] OTHER -> [type |-> "*multiValidator", fn |-> NilFn,
                 validators |-> JoinLoop(vs)]

RECURSIVE JoinContextLoop(_)
JoinContextLoop(vs) ==
  IF vs = <<>> THEN <<>>
  ELSE (CASE Head(vs).type = "nil" -> <<>>
          [] Head(vs).type = "multiContextValidator" -> Head(vs).validators
          [] OTHER -> <<Head(vs)>>) \o JoinContextLoop(Tail(vs))

JoinContext(validators) ==
  LET vs == nonNilContextValidator(validators) IN
  CASE Len(vs) = 0 -> NoOpContext
    [] Len(vs) = 1 -> vs[1]
    [] OTHER -> [type |-> "multiContextValidator", fn |-> NilFn,
                 validators |-> JoinContextLoop(vs)]

\* ------------------------------------------------------------- helpers
SeqsUpTo(S, n) == UNION {[1..k -> S] : k \in 0..n}

IsAggregate(v) == v.type \in {"multiValidator", "*multiValidator", "multiContextValidator"}

\* ------------------------------------------------------ error values
\* an error interface value: [kind, fn, value, errs]; kind "nil" is the nil error,
\* "err" the failure raw function fn reports for input value, "canceled" the
\* context's cancellation error, "joinError" the *joinError of package errors
NilErr == [kind |-> "nil", fn |-> NilFn, value |-> 0, errs |-> <<>>]

Err(f, v) == [kind |-> "err", fn |-> f, value |-> v, errs |-> <<>>]

Canceled == [kind |-> "canceled", fn |-> NilFn, value |-> 0, errs |-> <<>>]

\* errors.Join of the standard library: nil values are discarded, nil when none is
\* left, otherwise a new *joinError holding the rest (also when one is left)
ErrorsJoin(errs) ==
  LET nn == SelectSeq(errs, LAMBDA e : e # NilErr) IN
  IF Len(nn) = 0 THEN NilErr
  ELSE [kind |-> "joinError", fn |-> NilFn, value |-> 0, errs |-> nn]

\* --------------------------------------------------------------- state
Callers == {"c1", "c2"}
Values == {1, 2}
Background == "background"
Cancelled == "cancelled"
Contexts == {Background, Cancelled}
NoContext == "none"

VARIABLES
  op,        \* the factory called last ("init" before the first call)
  funcs,     \* its raw-function arguments (New, NewContext)
  args,      \* its validator arguments (Join, JoinContext)
  result,    \* the value it returned
  ncalls,    \* factory calls so far
  validator, \* the validator the callers share
  fails,     \* <<f, v>>: raw function f reports a failure for input v
  aware,     \* the raw functions that return the context's error once it is cancelled
  pc,        \* per caller: "idle", "loop" (inside a multi-validator's loop), "done"
  val,       \* per caller: the value passed to Validate
  ctx,       \* per caller: the context passed to Validate
  idx,       \* per caller: members of v.validators the loop has been through
  errs,      \* per caller: the local slice errs
  log,       \* per caller: the Validate calls made on members, in order
  calls,     \* per caller: the raw functions invoked, in order, with their results
  ret        \* per caller: the error Validate returned

factoryVars == <<op, funcs, args, result, ncalls>>

sharedVars == <<validator, fails, aware>>

callVars == <<pc, val, ctx, idx, errs, log, calls, ret>>

vars == <<op, funcs, args, result, ncalls, validator, fails, aware,
          pc, val, ctx, idx, errs, log, calls, ret>>

\* ------------------------------------------- the caller's raw functions
FnCall(f, value) == IF <<f, value>> \in fails THEN Err(f, value) ELSE NilErr

FnCallContext(f, c, value) ==
  IF c = Cancelled /\ f \in aware THEN Canceled
  ELSE IF <<f, value>> \in fails THEN Err(f, value) ELSE NilErr

Invocation(f, c, value, out) == [fn |-> f, ctx |-> c, value |-> value, out |-> out]

RECURSIVE Concat(_)
Concat(ss) == IF ss = <<>> THEN <<>> ELSE Head(ss) \o Concat(Tail(ss))

\* ------------------------------------- Validate, by dynamic dispatch
\* [err, calls]: the error v.Validate(value) returns and the raw functions it invokes
RECURSIVE Validate(_, _)
Validate(v, value) ==
  CASE v.type = "Func" ->
         IF v.fn = NilFn THEN [err |-> NilErr, calls |-> <<>>]
         ELSE [err |-> FnCall(v.fn, value),
               calls |-> <<Invocation(v.fn, NoContext, value, FnCall(v.fn, value))>>]
    [] v.type = "noOpValidator" -> [err |-> NilErr, calls |-> <<>>]
    [] OTHER ->
         LET rs == [i \in 1..Len(v.validators) |-> Validate(v.validators[i], value)] IN
         [err |-> ErrorsJoin(SelectSeq([i \in 1..Len(rs) |-> rs[i].err],
                                       LAMBDA e : e # NilErr)),
          calls |-> Concat([i \in 1..Len(rs) |-> rs[i].calls])]

RECURSIVE ValidateContext(_, _, _)
ValidateContext(v, c, value) ==
  CASE v.type = "ContextFunc" ->
         IF v.fn = NilFn THEN [err |-> NilErr, calls |-> <<>>]
         ELSE [err |-> FnCallContext(v.fn, c, value),
               calls |-> <<Invocation(v.fn, c, value, FnCallContext(v.fn, c, value))>>]
    [] v.type = "noOpContextValidator" -> [err |-> NilErr, calls |-> <<>>]
    [] OTHER ->
         LET rs == [i \in 1..Len(v.validators) |->
                      ValidateContext(v.validators[i], c, value)] IN
         [err |-> ErrorsJoin(SelectSeq([i \in 1..Len(rs) |-> rs[i].err],
                                       LAMBDA e : e # NilErr)),
          calls |-> Concat([i \in 1..Len(rs) |-> rs[i].calls])]

\* --------------------------------------------------- factory calls
\* what a caller can hand to Join: nil, a Func built directly, or the value the
\* factory call before returned (NoOp() included)
JoinInputs == {NilValidator} \cup {Func(f) : f \in Fns}
                \cup (IF result.type \in SyncTypes THEN {result} ELSE {})

JoinContextInputs == {NilValidator} \cup {ContextFunc(f) : f \in Fns}
                \cup (IF result.type \in ContextTypes THEN {result} ELSE {})

NoCalls ==
  /\ pc = [c \in Callers |-> "idle"]
  /\ val = [c \in Callers |-> 0]
  /\ ctx = [c \in Callers |-> NoContext]
  /\ idx = [c \in Callers |-> 0]
  /\ errs = [c \in Callers |-> <<>>]
  /\ log = [c \in Callers |-> <<>>]
  /\ calls = [c \in Callers |-> <<>>]
  /\ ret = [c \in Callers |-> NilErr]

Init ==
  /\ op = "init"
  /\ funcs = <<>>
  /\ args = <<>>
  /\ result = NilValidator
  /\ ncalls = 0
  /\ validator = NilValidator
  /\ fails = {}
  /\ aware = {}
  /\ NoCalls

CallNew ==
  /\ ncalls < MaxCalls
  /\ \E fs \in SeqsUpTo(RawFns, MaxArgs) :
       /\ op' = "New"
       /\ funcs' = fs
       /\ args' = <<>>
       /\ result' = New(fs)
  /\ ncalls' = ncalls + 1
  /\ UNCHANGED <<sharedVars, callVars>>

CallNewContext ==
  /\ ncalls < MaxCalls
  /\ \E fs \in SeqsUpTo(RawFns, MaxArgs) :
       /\ op' = "NewContext"
       /\ funcs' = fs
       /\ args' = <<>>
       /\ result' = NewContext(fs)
  /\ ncalls' = ncalls + 1
  /\ UNCHANGED <<sharedVars, callVars>>

CallJoin ==
  /\ ncalls < MaxCalls
  /\ \E vs \in SeqsUpTo(JoinInputs, MaxArgs) :
       /\ op' = "Join"
       /\ funcs' = <<>>
       /\ args' = vs
       /\ result' = Join(vs)
  /\ ncalls' = ncalls + 1
  /\ UNCHANGED <<sharedVars, callVars>>

CallJoinContext ==
  /\ ncalls < MaxCalls
  /\ \E vs \in SeqsUpTo(JoinContextInputs, MaxArgs) :
       /\ op' = "JoinContext"
       /\ funcs' = <<>>
       /\ args' = vs
       /\ result' = JoinContext(vs)
  /\ ncalls' = ncalls + 1
  /\ UNCHANGED <<sharedVars, callVars>>

CallNoOp ==
  /\ ncalls < MaxCalls
  /\ op' = "NoOp"
  /\ funcs' = <<>>
  /\ args' = <<>>
  /\ result' = NoOp
  /\ ncalls' = ncalls + 1
  /\ UNCHANGED <<sharedVars, callVars>>

CallNoOpContext ==
  /\ ncalls < MaxCalls
  /\ op' = "NoOpContext"
  /\ funcs' = <<>>
  /\ args' = <<>>
  /\ result' = NoOpContext
  /\ ncalls' = ncalls + 1
  /\ UNCHANGED <<sharedVars, callVars>>

Next ==
  \/ CallNew
  \/ CallNewContext
  \/ CallJoin
  \/ CallJoinContext
  \/ CallNoOp
  \/ CallNoOpContext

Spec == Init /\ [][Next]_vars

\* ------------------------------------------------- Validate calls
\* the validators the callers share: built by the factories, or a Func /
\* ContextFunc converted directly from a (possibly nil) function
SyncTargets ==
  {Func(f) : f \in RawFns}
    \cup {New(fs) : fs \in SeqsUpTo(Fns, MaxArgs)}
    \cup {Join(<<a, Func(f)>>) :
            a \in {NoOp, New(<<"f1", "f2">>), Join(<<Func("f2"), Func("f1")>>)},
            f \in Fns}

ContextTargets ==
  {ContextFunc(f) : f \in RawFns}
    \cup {NewContext(fs) : fs \in SeqsUpTo(Fns, MaxArgs)}
    \cup {JoinContext(<<a, ContextFunc(f)>>) :
            a \in {NoOpContext, NewContext(<<"f1", "f2">>),
                   JoinContext(<<ContextFunc("f2"), ContextFunc("f1")>>)},
            f \in Fns}

InitCheck ==
  /\ op = "init"
  /\ funcs = <<>>
  /\ args = <<>>
  /\ result = NilValidator
  /\ ncalls = 0
  /\ validator \in SyncTargets \cup ContextTargets
  /\ fails \in SUBSET (Fns \X Values)
  /\ aware \in SUBSET Fns
  /\ NoCalls

\* variant: the failures are collected newest first
AppendErr_prepend(all, c, err) == [all EXCEPT ![c] = <<err>> \o @]

\* variant: errs is one slice kept in the validator, shared by all calls
AppendErr_shared(all, c, err) == [d \in DOMAIN all |-> Append(all[d], err)]

\* errs = append(errs, err), on the calling goroutine's own slice
AppendErr(all, c, err) == [all EXCEPT ![c] = Append(@, err)]
\* variant: the result goes through errors.Join on its way out
Func_Validate_joined(c) ==
  /\ pc[c] = "idle"
  /\ validator.type = "Func"
  /\ \E value \in Values :
       LET r == IF validator.fn = NilFn
                  THEN [err |-> NilErr, calls |-> <<>>]
                  ELSE [err |-> ErrorsJoin(<<FnCall(validator.fn, value)>>),
                        calls |-> <<Invocation(validator.fn, NoContext, value,
                                               FnCall(validator.fn, value))>>]
       IN /\ val' = [val EXCEPT ![c] = value]
          /\ calls' = [calls EXCEPT ![c] = r.calls]
          /\ ret' = [ret EXCEPT ![c] = r.err]
  /\ pc' = [pc EXCEPT ![c] = "done"]
  /\ UNCHANGED <<factoryVars, sharedVars, ctx, idx, errs, log>>


Func_Validate(c) ==
  /\ pc[c] = "idle"
  /\ validator.type = "Func"
  /\ \E value \in Values :
       LET r == IF validator.fn = NilFn
                  THEN [err |-> NilErr, calls |-> <<>>]
                  ELSE [err |-> FnCall(validator.fn, value),
                        calls |-> <<Invocation(validator.fn, NoContext, value,
                                               FnCall(validator.fn, value))>>]
       IN /\ val' = [val EXCEPT ![c] = value]
          /\ calls' = [calls EXCEPT ![c] = r.calls]
          /\ ret' = [ret EXCEPT ![c] = r.err]
  /\ pc' = [pc EXCEPT ![c] = "done"]
  /\ UNCHANGED <<factoryVars, sharedVars, ctx, idx, errs, log>>

noOpValidator_Validate(c) ==
  /\ pc[c] = "idle"
  /\ validator.type = "noOpValidator"
  /\ \E value \in Values : val' = [val EXCEPT ![c] = value]
  /\ ret' = [ret EXCEPT ![c] = NilErr]
  /\ pc' = [pc EXCEPT ![c] = "done"]
  /\ UNCHANGED <<factoryVars, sharedVars, ctx, idx, errs, log, calls>>

\* errs := make([]error, 0, len(v.validators))
multiValidator_Validate_begin(c) ==
  /\ pc[c] = "idle"
  /\ validator.type \in {"multiValidator", "*multiValidator"}
  /\ \E value \in Values : val' = [val EXCEPT ![c] = value]
  /\ errs' = [errs EXCEPT ![c] = <<>>]
  /\ idx' = [idx EXCEPT ![c] = 0]
  /\ pc' = [pc EXCEPT ![c] = "loop"]
  /\ UNCHANGED <<factoryVars, sharedVars, ctx, log, calls, ret>>

\* variant: the loop breaks at the first failure
multiValidator_Validate_loop_break(c) ==
  /\ pc[c] = "loop"
  /\ validator.type \in {"multiValidator", "*multiValidator"}
  /\ idx[c] < Len(validator.validators)
  /\ LET m == validator.validators[idx[c] + 1]
         r == Validate(m, val[c])
     IN /\ log' = [log EXCEPT ![c] =
                     Append(@, [validator |-> m, ctx |-> NoContext, value |-> val[c]])]
        /\ calls' = [calls EXCEPT ![c] = @ \o r.calls]
        /\ errs' = IF r.err # NilErr THEN AppendErr(errs, c, r.err) ELSE errs
        /\ idx' = [idx EXCEPT ![c] =
                     IF r.err # NilErr THEN Len(validator.validators) ELSE @ + 1]
  /\ UNCHANGED <<factoryVars, sharedVars, pc, val, ctx, ret>>

\* one iteration of for i := range v.validators
multiValidator_Validate_loop(c) ==
  /\ pc[c] = "loop"
  /\ validator.type \in {"multiValidator", "*multiValidator"}
  /\ idx[c] < Len(validator.validators)
  /\ LET m == validator.validators[idx[c] + 1]
         r == Validate(m, val[c])
     IN /\ log' = [log EXCEPT ![c] =
                     Append(@, [validator |-> m, ctx |-> NoContext, value |-> val[c]])]
        /\ calls' = [calls EXCEPT ![c] = @ \o r.calls]
        /\ errs' = IF r.err # NilErr THEN AppendErr(errs, c, r.err) ELSE errs
  /\ idx' = [idx EXCEPT ![c] = @ + 1]
  /\ UNCHANGED <<factoryVars, sharedVars, pc, val, ctx, ret>>

\* variant: a single failure is returned as it is, errors.Join only joins several
multiValidator_Validate_return_single(c) ==
  /\ pc[c] = "loop"
  /\ validator.type \in {"multiValidator", "*multiValidator"}
  /\ idx[c] = Len(validator.validators)
  /\ ret' = [ret EXCEPT ![c] = IF Len(errs[c]) = 1 THEN errs[c][1] ELSE ErrorsJoin(errs[c])]
  /\ pc' = [pc EXCEPT ![c] = "done"]
  /\ UNCHANGED <<factoryVars, sharedVars, val, ctx, idx, errs, log, calls>>

\* return errors.Join(errs...)
multiValidator_Validate_return(c) ==
  /\ pc[c] = "loop"
  /\ validator.type \in {"multiValidator", "*multiValidator"}
  /\ idx[c] = Len(validator.validators)
  /\ ret' = [ret EXCEPT ![c] = ErrorsJoin(errs[c])]
  /\ pc' = [pc EXCEPT ![c] = "done"]
  /\ UNCHANGED <<factoryVars, sharedVars, val, ctx, idx, errs, log, calls>>

ContextFunc_Validate(c) ==
  /\ pc[c] = "idle"
  /\ validator.type = "ContextFunc"
  /\ \E cx \in Contexts, value \in Values :
       LET r == IF validator.fn = NilFn
                  THEN [err |-> NilErr, calls |-> <<>>]
                  ELSE [err |-> FnCallContext(validator.fn, cx, value),
                        calls |-> <<Invocation(validator.fn, cx, value,
                                               FnCallContext(validator.fn, cx, value))>>]
       IN /\ val' = [val EXCEPT ![c] = value]
          /\ ctx' = [ctx EXCEPT ![c] = cx]
          /\ calls' = [calls EXCEPT ![c] = r.calls]
          /\ ret' = [ret EXCEPT ![c] = r.err]
  /\ pc' = [pc EXCEPT ![c] = "done"]
  /\ UNCHANGED <<factoryVars, sharedVars, idx, errs, log>>

noOpContextValidator_Validate(c) ==
  /\ pc[c] = "idle"
  /\ validator.type = "noOpContextValidator"
  /\ \E cx \in Contexts, value \in Values :
       /\ val' = [val EXCEPT ![c] = value]
       /\ ctx' = [ctx EXCEPT ![c] = cx]
  /\ ret' = [ret EXCEPT ![c] = NilErr]
  /\ pc' = [pc EXCEPT ![c] = "done"]
  /\ UNCHANGED <<factoryVars, sharedVars, idx, errs, log, calls>>

multiContextValidator_Validate_begin(c) ==
  /\ pc[c] = "idle"
  /\ validator.type = "multiContextValidator"
  /\ \E cx \in Contexts, value \in Values :
       /\ val' = [val EXCEPT ![c] = value]
       /\ ctx' = [ctx EXCEPT ![c] = cx]
  /\ errs' = [errs EXCEPT ![c] = <<>>]
  /\ idx' = [idx EXCEPT ![c] = 0]
  /\ pc' = [pc EXCEPT ![c] = "loop"]
  /\ UNCHANGED <<factoryVars, sharedVars, log, calls, ret>>

multiContextValidator_Validate_loop(c) ==
  /\ pc[c] = "loop"
  /\ validator.type = "multiContextValidator"
  /\ idx[c] < Len(validator.validators)
  /\ LET m == validator.validators[idx[c] + 1]
         r == ValidateContext(m, ctx[c], val[c])
     IN /\ log' = [log EXCEPT ![c] =
                     Append(@, [validator |-> m, ctx |-> ctx[c], value |-> val[c]])]
        /\ calls' = [calls EXCEPT ![c] = @ \o r.calls]
        /\ errs' = IF r.err # NilErr THEN AppendErr(errs, c, r.err) ELSE errs
  /\ idx' = [idx EXCEPT ![c] = @ + 1]
  /\ UNCHANGED <<factoryVars, sharedVars, pc, val, ctx, ret>>

multiContextValidator_Validate_return(c) ==
  /\ pc[c] = "loop"
  /\ validator.type = "multiContextValidator"
  /\ idx[c] = Len(validator.validators)
  /\ ret' = [ret EXCEPT ![c] = ErrorsJoin(errs[c])]
  /\ pc' = [pc EXCEPT ![c] = "done"]
  /\ UNCHANGED <<factoryVars, sharedVars, val, ctx, idx, errs, log, calls>>

NextCheck ==
  \E c \in Callers :
    \/ Func_Validate(c)
    \/ noOpValidator_Validate(c)
    \/ multiValidator_Validate_begin(c)
    \/ multiValidator_Validate_loop(c)
    \/ multiValidator_Validate_return(c)
    \/ ContextFunc_Validate(c)
    \/ noOpContextValidator_Validate(c)
    \/ multiContextValidator_Validate_begin(c)
    \/ multiContextValidator_Validate_loop(c)
    \/ multiContextValidator_Validate_return(c)

SpecCheck == InitCheck /\ [][NextCheck]_vars

\* ====================================================== properties
\* the entries of s other than absent, in their order
RECURSIVE Kept(_, _)
Kept(s, absent) ==
  IF s = <<>> THEN <<>>
  ELSE IF Head(s) = absent THEN Kept(Tail(s), absent)
  ELSE <<Head(s)>> \o Kept(Tail(s), absent)

IsNoOp(v) == v.type \in {"noOpValidator", "noOpContextValidator"}

Width(v) == IF IsAggregate(v) THEN Len(v.validators) ELSE 1

RECURSIVE SumWidth(_)
SumWidth(s) == IF s = <<>> THEN 0 ELSE Width(Head(s)) + SumWidth(Tail(s))

\* C1: New / NewContext with k non-nil functions return the No-op validator for
\* k = 0, a Func / ContextFunc of that function for k = 1, and for k >= 2 a
\* multi-validator of exactly k members, the Func / ContextFunc of the non-nil
\* functions in their original order.
C1_NewShape ==
  op \in {"New", "NewContext"} =>
    LET kept == Kept(funcs, NilFn)
        k == Len(kept)
        leaf == IF op = "New" THEN "Func" ELSE "ContextFunc"
        multi == IF op = "New" THEN "multiValidator" ELSE "multiContextValidator"
    IN /\ k = 0 => result = (IF op = "New" THEN NoOp ELSE NoOpContext)
       /\ k = 1 => result.type = leaf /\ result.fn = kept[1]
       /\ k >= 2 => /\ result.type = multi
                    /\ Len(result.validators) = k
                    /\ \A j \in 1..k : /\ result.validators[j].type = leaf
                                       /\ result.validators[j].fn = kept[j]

C1_Witness ==
  /\ op = "NewContext"
  /\ funcs = <<"f2", NilFn, "f1">>
  /\ result.type = "multiContextValidator"
  /\ Len(result.validators) = 2

\* C2: Join / JoinContext of at least 2 non-nil entries return a multi-validator
\* whose member count is the sum of the entries' flattened widths: the member
\* count of an entry that is a multi-validator (from New or from an earlier Join),
\* 1 for any other entry.
C2_JoinFlattenedWidth ==
  (op \in {"Join", "JoinContext"} /\ Len(Kept(args, NilValidator)) >= 2) =>
    /\ IsAggregate(result)
    /\ Len(result.validators) = SumWidth(Kept(args, NilValidator))

\* C5: no multi-validator a factory has returned holds another multi-validator as
\* a direct member.
C5_OneLevelDeep ==
  IsAggregate(result) =>
    \A i \in DOMAIN result.validators : ~IsAggregate(result.validators[i])

\* C6: Join(Join(a, b, c), d, e) has the member list of Join(a, b, c, d, e), for
\* non-nil a..e that are no multi-validators, in both flavors.
C6_FlattenNested ==
  (/\ op \in {"Join", "JoinContext"}
   /\ Len(args) = 3
   /\ args[1].type \in {"*multiValidator", "multiContextValidator"}
   /\ Len(args[1].validators) = 3
   /\ \A i \in 1..3 : ~IsAggregate(args[1].validators[i])
   /\ \A i \in 2..3 : args[i] # NilValidator /\ ~IsAggregate(args[i]))
  => LET flat == args[1].validators \o <<args[2], args[3]>>
     IN result.validators =
          (IF op = "Join" THEN Join(flat) ELSE JoinContext(flat)).validators

\* C7 as claimed: Join / JoinContext drop No-op entries like nil entries: they do
\* not count toward the shape and never become members.
C7_NoOpDropped ==
  op \in {"Join", "JoinContext"} =>
    LET surv == SelectSeq(Kept(args, NilValidator), LAMBDA v : ~IsNoOp(v)) IN
    /\ Len(surv) = 0 => IsNoOp(result)
    /\ Len(surv) = 1 => result = surv[1]
    /\ IsAggregate(result) => \A i \in DOMAIN result.validators : ~IsNoOp(result.validators[i])

\* C7 as amended: only nil entries are dropped. Given No-op entries and no
\* multi-validator entry, a single non-nil entry is returned as it is and two or
\* more make a multi-validator whose members are all the non-nil entries in order,
\* the No-op ones included.
C7_NoOpKept ==
  (/\ op \in {"Join", "JoinContext"}
   /\ \E i \in DOMAIN args : IsNoOp(args[i])
   /\ \A i \in DOMAIN args : ~IsAggregate(args[i]))
  => LET kept == Kept(args, NilValidator) IN
     /\ Len(kept) = 1 => result = kept[1]
     /\ Len(kept) >= 2 => IsAggregate(result) /\ result.validators = kept

C7_Witness ==
  /\ op = "Join"
  /\ args = <<NoOp, NilValidator, Func("f1")>>
  /\ result.validators = <<NoOp, Func("f1")>>

\* the error member m returns to caller c's Validate call, taken alone
MemberErr(m, c) ==
  IF validator.type = "multiContextValidator"
    THEN ValidateContext(m, ctx[c], val[c]).err
    ELSE Validate(m, val[c]).err

MemberErrs(c) ==
  [j \in 1..Len(validator.validators) |-> MemberErr(validator.validators[j], c)]

\* C3: one Validate call on a multi-validator calls Validate on every member once,
\* in member order, with the call's value (and context), whatever earlier members
\* returned and whether or not the context is cancelled, and returns after the last.
C3_EveryMemberOnce ==
  \A c \in Callers :
    IsAggregate(validator) =>
      LET n == Len(validator.validators)
          full == [j \in 1..n |-> [validator |-> validator.validators[j],
                                   ctx |-> ctx[c], value |-> val[c]]]
      IN /\ pc[c] = "done" => log[c] = full
         /\ pc[c] = "loop" => Len(log[c]) <= n /\ log[c] = SubSeq(full, 1, Len(log[c]))

C3_Witness ==
  \E c \in Callers :
    /\ pc[c] = "done"
    /\ ctx[c] = Cancelled
    /\ Len(validator.validators) = 3
    /\ MemberErr(validator.validators[1], c) # NilErr
    /\ Len(log[c]) = 3

\* C4: Validate on a multi-validator returns nil exactly when no member returned
\* an error; the slice handed to errors.Join is the members' non-nil results, one
\* per failing member, in member order.
C4_FailuresInOrder ==
  \A c \in Callers :
    (IsAggregate(validator) /\ pc[c] = "done") =>
      /\ ret[c] = NilErr <=> \A j \in 1..Len(validator.validators) : MemberErrs(c)[j] = NilErr
      /\ errs[c] = SelectSeq(MemberErrs(c), LAMBDA e : e # NilErr)

C4_Witness ==
  \E c \in Callers :
    /\ pc[c] = "done"
    /\ Len(validator.validators) = 3
    /\ MemberErrs(c)[1] # NilErr
    /\ MemberErrs(c)[2] = NilErr
    /\ MemberErrs(c)[3] # NilErr
    /\ errs[c] = <<MemberErrs(c)[1], MemberErrs(c)[3]>>

\* C8 as claimed: with exactly one failing member the multi-validator returns that
\* member's error itself.
C8_SingleUnchanged ==
  \A c \in Callers :
    (IsAggregate(validator) /\ pc[c] = "done" /\ Len(errs[c]) = 1) => ret[c] = errs[c][1]

\* C8 as amended: with one or more failing members the multi-validator returns a
\* new joinError holding exactly the collected failures, also when there is one.
C8_SingleWrapped ==
  \A c \in Callers :
    (IsAggregate(validator) /\ pc[c] = "done" /\ Len(errs[c]) >= 1) =>
      /\ ret[c].kind = "joinError"
      /\ ret[c].errs = errs[c]
      /\ ret[c] # errs[c][1]

C8_Witness ==
  \E c \in Callers :
    /\ IsAggregate(validator)
    /\ pc[c] = "done"
    /\ Len(errs[c]) = 1
    /\ errs[c][1].kind = "err"
    /\ ret[c] = [kind |-> "joinError", fn |-> NilFn, value |-> 0, errs |-> errs[c]]

\* C9: Validate on a Func / ContextFunc that is nil returns nil and invokes
\* nothing; on a non-nil one it invokes the function once with the given value
\* (and context) and returns that function's result as it is.
C9_LeafValidate ==
  \A c \in Callers :
    (validator.type \in {"Func", "ContextFunc"} /\ pc[c] = "done") =>
      IF validator.fn = NilFn
        THEN ret[c] = NilErr /\ calls[c] = <<>>
        ELSE /\ Len(calls[c]) = 1
             /\ calls[c][1].fn = validator.fn
             /\ calls[c][1].value = val[c]
             /\ calls[c][1].ctx = ctx[c]
             /\ ret[c] = calls[c][1].out
             /\ ret[c] = (IF validator.type = "Func"
                            THEN FnCall(validator.fn, val[c])
                            ELSE FnCallContext(validator.fn, ctx[c], val[c]))

C9_Witness ==
  \E c \in Callers :
    /\ validator = Func(NilFn)
    /\ pc[c] = "done"
    /\ ret[c] = NilErr
    /\ calls[c] = <<>>

\* the outcome of caller c's call had it run alone
Alone(c) ==
  IF validator.type \in ContextTypes
    THEN ValidateContext(validator, ctx[c], val[c])
    ELSE Validate(validator, val[c])

C10_OwnOutcome ==
  \A c \in Callers :
    pc[c] = "done" =>
      /\ ret[c] = Alone(c).err
      /\ calls[c] = Alone(c).calls
      /\ IsAggregate(validator) => errs[c] = SelectSeq(MemberErrs(c), LAMBDA e : e # NilErr)

\* C10: Validate calls running at the same time on one multi-validator with
\* different inputs each return what they return when run alone, their failures
\* being those of their own input in member order, and the validator's member
\* list never changes.
C10_ConcurrentCalls == [](C10_OwnOutcome) /\ [][validator' = validator]_vars

C10_Witness ==
  /\ IsAggregate(validator)
  /\ pc["c1"] = "done"
  /\ pc["c2"] = "loop"
  /\ idx["c2"] = 1
  /\ val["c1"] # val["c2"]
  /\ errs["c1"] # <<>>
  /\ errs["c2"] # <<>>

====
